---- MODULE Spec2Model ----
(***************************************************************************)
(* IDAssure: the DOB-extraction-and-age-derivation pipeline, the face      *)
(* similarity scorer and the verdict policy of app.py, face_match_utils.py *)
(* and ocr_api.py.                                                         *)
(*                                                                         *)
(* A Python str is a sequence of one-character strings; an optional value  *)
(* (None or a value) is a set with at most one element; a similarity score *)
(* is an integer number of thousandths.                                    *)
(***************************************************************************)
EXTENDS Integers, Sequences, FiniteSets, TLC

\* ------------------------------------------------------------ optionals
None == {}
Some(x) == {x}
Val(o) == CHOOSE x \in o : TRUE

\* ------------------------------------------------------------ characters
Digits == {"0", "1", "2", "3", "4", "5", "6", "7", "8", "9"}

LowerLetters == {"a", "b", "c", "d", "e", "f", "g", "h", "i", "j", "k", "l", "m",
                 "n", "o", "p", "q", "r", "s", "t", "u", "v", "w", "x", "y", "z"}

UpperLetters == {"A", "B", "C", "D", "E", "F", "G", "H", "I", "J", "K", "L", "M",
                 "N", "O", "P", "Q", "R", "S", "T", "U", "V", "W", "X", "Y", "Z"}

\* The Devanagari code points of the localized label, by name: the letters
\* (category Lo) and the combining signs (virama, vowel sign i).
DevLetters == {"DEV_JA", "DEV_NA", "DEV_MA", "DEV_TA", "DEV_THA"}
DevSigns == {"DEV_VIRAMA", "DEV_I"}

\* str.lower() of one character (re.IGNORECASE compares case-folded).
Lower(c) ==
    CASE c = "A" -> "a" [] c = "B" -> "b" [] c = "C" -> "c" [] c = "D" -> "d"
      [] c = "E" -> "e" [] c = "F" -> "f" [] c = "G" -> "g" [] c = "H" -> "h"
      [] c = "I" -> "i" [] c = "J" -> "j" [] c = "K" -> "k" [] c = "L" -> "l"
      [] c = "M" -> "m" [] c = "N" -> "n" [] c = "O" -> "o" [] c = "P" -> "p"
      [] c = "Q" -> "q" [] c = "R" -> "r" [] c = "S" -> "s" [] c = "T" -> "t"
      [] c = "U" -> "u" [] c = "V" -> "v" [] c = "W" -> "w" [] c = "X" -> "x"
      [] c = "Y" -> "y" [] c = "Z" -> "z" [] OTHER -> c

DigitVal(c) ==
    CASE c = "0" -> 0 [] c = "1" -> 1 [] c = "2" -> 2 [] c = "3" -> 3
      [] c = "4" -> 4 [] c = "5" -> 5 [] c = "6" -> 6 [] c = "7" -> 7
      [] c = "8" -> 8 [] c = "9" -> 9

\* The character at 1-based position i, "" outside the string.
Ch(t, i) == IF i >= 1 /\ i <= Len(t) THEN t[i] ELSE ""

IsDigit(c) == c \in Digits
IsLetter(c) == c \in LowerLetters \cup UpperLetters
IsSpace(c) == c = " "
\* \w of a str pattern: alphanumerics and the underscore.
IsWord(c) == IsDigit(c) \/ IsLetter(c) \/ c = "_" \/ c \in DevLetters
\* \b before position i: exactly one side is a word character.
Boundary(t, i) == IsWord(Ch(t, i - 1)) # IsWord(Ch(t, i))

DigitsAt(t, i, n) == \A k \in 0..(n - 1) : IsDigit(Ch(t, i + k))
\* A literal under re.IGNORECASE.
LitAt(t, i, lit) == \A k \in 1..Len(lit) : Lower(Ch(t, i + k - 1)) = Lower(lit[k])

RECURSIVE NumVal(_)
NumVal(ds) == IF ds = <<>> THEN 0
              ELSE 10 * NumVal(SubSeq(ds, 1, Len(ds) - 1)) + DigitVal(ds[Len(ds)])

SetMin(S) == CHOOSE x \in S : \A y \in S : x <= y

\* " ".join(fragments)
RECURSIVE Join(_)
Join(frags) == IF frags = <<>> THEN <<>>
               ELSE IF Len(frags) = 1 THEN frags[1]
               ELSE frags[1] \o <<" ">> \o Join(Tail(frags))

\* str.strip()
RECURSIVE Strip(_)
Strip(s) == IF s = <<>> THEN s
            ELSE IF IsSpace(s[1]) THEN Strip(Tail(s))
            ELSE IF IsSpace(s[Len(s)]) THEN Strip(SubSeq(s, 1, Len(s) - 1))
            ELSE s

\* ------------------------------------------------------------ regular expressions
\* A match: s..e-1 is group(0), gs..ge-1 is group(1) (gs = 0: no group); s = 0: no match.
NoMatch == [s |-> 0, e |-> 0, gs |-> 0, ge |-> 0]
Whole(t, m) == SubSeq(t, m.s, m.e - 1)
Group1(t, m) == SubSeq(t, m.gs, m.ge - 1)

SlashDash == {"/", "-"}
LabelSep == {":", " ", "-"}

\* \d{a}[seps]\d{b}[seps]\d{c} at i
NumDateAt(t, i, seps, a, b, c) ==
    /\ DigitsAt(t, i, a)
    /\ Ch(t, i + a) \in seps
    /\ DigitsAt(t, i + a + 1, b)
    /\ Ch(t, i + a + 1 + b) \in seps
    /\ DigitsAt(t, i + a + b + 2, c)

\* \b\d{a}[/-]\d{b}[/-]\d{c}\b, no group
BoundedNumDate(t, i, seps, a, b, c) ==
    IF /\ Boundary(t, i)
       /\ NumDateAt(t, i, seps, a, b, c)
       /\ Boundary(t, i + a + b + c + 2)
    THEN [s |-> i, e |-> i + a + b + c + 2, gs |-> 0, ge |-> 0]
    ELSE NoMatch

MonthAbbr == << <<"j","a","n">>, <<"f","e","b">>, <<"m","a","r">>, <<"a","p","r">>,
                <<"m","a","y">>, <<"j","u","n">>, <<"j","u","l">>, <<"a","u","g">>,
                <<"s","e","p">>, <<"o","c","t">>, <<"n","o","v">>, <<"d","e","c">> >>

MonthAbbrAt(t, i) == \E k \in 1..12 : LitAt(t, i, MonthAbbr[k])

\* The end (exclusive) of the longest run of characters of class C from i.
RECURSIVE RunEnd(_, _, _)
RunEnd(t, i, C) == IF Ch(t, i) \in C THEN RunEnd(t, i + 1, C) ELSE i

\* \b\d{2}\s(?:Jan|...|Dec)[a-z]*\s\d{4}\b, no group. [a-z]* is greedy and the
\* next item is \s, so only the longest run of letters can be followed by a match.
TextMonthAt(t, i) ==
    LET j == RunEnd(t, i + 6, LowerLetters \cup UpperLetters)
    IN  IF /\ Boundary(t, i)
           /\ DigitsAt(t, i, 2)
           /\ IsSpace(Ch(t, i + 2))
           /\ MonthAbbrAt(t, i + 3)
           /\ IsSpace(Ch(t, j))
           /\ DigitsAt(t, j + 1, 4)
           /\ Boundary(t, j + 5)
        THEN [s |-> i, e |-> j + 5, gs |-> 0, ge |-> 0]
        ELSE NoMatch

\* label[:\s\-]*([0-9]{2}[/-][0-9]{2}[/-][0-9]{4}): the separator class holds no
\* digit, so the date can only start where the longest run of separators ends.
LabelledAt(t, i, label) ==
    LET j == RunEnd(t, i + Len(label), LabelSep)
    IN  IF LitAt(t, i, label) /\ NumDateAt(t, j, SlashDash, 2, 2, 4)
        THEN [s |-> i, e |-> j + 10, gs |-> j, ge |-> j + 10]
        ELSE NoMatch

L_DOB == <<"D", "O", "B">>
L_DateOfBirth == <<"D","a","t","e"," ","o","f"," ","B","i","r","t","h">>
L_Janm == <<"DEV_JA", "DEV_NA", "DEV_VIRAMA", "DEV_MA">>
L_Tithi == <<"DEV_TA", "DEV_I", "DEV_THA", "DEV_I">>

\* <janm>[\s]*<tithi>[:\s\-]*([0-9]{2}[/-][0-9]{2}[/-][0-9]{4})
LocalizedAt(t, i) ==
    LET k == RunEnd(t, i + Len(L_Janm), {" "})
        j == RunEnd(t, k + Len(L_Tithi), LabelSep)
    IN  IF /\ LitAt(t, i, L_Janm)
           /\ LitAt(t, k, L_Tithi)
           /\ NumDateAt(t, j, SlashDash, 2, 2, 4)
        THEN [s |-> i, e |-> j + 10, gs |-> j, ge |-> j + 10]
        ELSE NoMatch

\* label\s*[:\s-]\s*(\d{2}[/-]\d{2}[/-]\d{4}) of app.py: between the label and
\* the date, spaces around exactly one of ':', ' ', '-'.
AppLabelledAt(t, i, label) ==
    LET a == i + Len(label)
        j == RunEnd(t, a, LabelSep)
        run == SubSeq(t, a, j - 1)
    IN  IF /\ LitAt(t, i, label)
           /\ j > a
           /\ Cardinality({k \in 1..Len(run) : ~IsSpace(run[k])}) <= 1
           /\ NumDateAt(t, j, SlashDash, 2, 2, 4)
        THEN [s |-> i, e |-> j + 10, gs |-> j, ge |-> j + 10]
        ELSE NoMatch

\* \b(\d{2}<sep>\d{2}<sep>\d{4})\b of app.py: the group is the whole match.
AppNumDateAt(t, i, sep) ==
    LET m == BoundedNumDate(t, i, {sep}, 2, 2, 4)
    IN  IF m.s = 0 THEN NoMatch ELSE [m EXCEPT !.gs = m.s, !.ge = m.e]

\* \b(\d{1,2}\s(?:Jan|...|Dec)\s\d{4})\b of app.py.
AppTextMonthAt(t, i) ==
    LET n == IF DigitsAt(t, i, 2) /\ IsSpace(Ch(t, i + 2)) THEN 2
             ELSE IF DigitsAt(t, i, 1) /\ IsSpace(Ch(t, i + 1)) THEN 1
             ELSE 0
        j == i + n + 4
    IN  IF /\ n > 0
           /\ Boundary(t, i)
           /\ MonthAbbrAt(t, i + n + 1)
           /\ IsSpace(Ch(t, j))
           /\ DigitsAt(t, j + 1, 4)
           /\ Boundary(t, j + 5)
        THEN [s |-> i, e |-> j + 5, gs |-> i, ge |-> j + 5]
        ELSE NoMatch

\* \b(19\d{2}|20\d{2})\b, the fallback of app.py.
YearAt(t, i) ==
    IF /\ Boundary(t, i)
       /\ Ch(t, i) \in {"1", "2"}
       /\ Ch(t, i + 1) = (IF Ch(t, i) = "1" THEN "9" ELSE "0")
       /\ DigitsAt(t, i + 2, 2)
       /\ Boundary(t, i + 4)
    THEN [s |-> i, e |-> i + 4, gs |-> i, ge |-> i + 4]
    ELSE NoMatch

\* One pattern of a patterns list, tried at position i.
MatchAt(p, t, i) ==
    CASE p = "dmy4" -> BoundedNumDate(t, i, SlashDash, 2, 2, 4)
      [] p = "ymd" -> BoundedNumDate(t, i, SlashDash, 4, 2, 2)
      [] p = "dmy2" -> BoundedNumDate(t, i, SlashDash, 2, 2, 2)
      [] p = "textmonth" -> TextMonthAt(t, i)
      [] p = "dob" -> LabelledAt(t, i, L_DOB)
      [] p = "dateofbirth" -> LabelledAt(t, i, L_DateOfBirth)
      [] p = "localized" -> LocalizedAt(t, i)
      [] p = "app_dob" -> AppLabelledAt(t, i, L_DOB)
      [] p = "app_dateofbirth" -> AppLabelledAt(t, i, L_DateOfBirth)
      [] p = "app_slash" -> AppNumDateAt(t, i, "/")
      [] p = "app_dash" -> AppNumDateAt(t, i, "-")
      [] p = "app_textmonth" -> AppTextMonthAt(t, i)
      [] p = "year" -> YearAt(t, i)

\* re.search: the match at the leftmost position that has one.
Search(p, t) ==
    LET S == {i \in 1..(Len(t) + 1) : MatchAt(p, t, i).s # 0}
    IN  IF S = {} THEN NoMatch ELSE MatchAt(p, t, SetMin(S))

\* The index of the first pattern of the list that matches, 0 when none does.
FirstMatching(patterns, t) ==
    LET S == {k \in 1..Len(patterns) : Search(patterns[k], t).s # 0}
    IN  IF S = {} THEN 0 ELSE SetMin(S)

\* ------------------------------------------------------------ extract_dob_text
\* What reader.readtext gives: the recognized fragments, or an exception.
OcrOk(frags) == [ok |-> TRUE, frags |-> frags]
OcrRaises == [ok |-> FALSE, frags |-> <<>>]

UtilsPatterns == <<"dmy4", "ymd", "textmonth", "dob", "dateofbirth", "localized">>
OcrApiPatterns == <<"dmy4", "ymd", "dmy2", "textmonth", "dob", "dateofbirth", "localized">>
AppPatterns == <<"app_dob", "app_dateofbirth", "app_slash", "app_dash", "app_textmonth">>

\* face_match_utils.py: match.group(0) of the first pattern that matches; any
\* exception is swallowed.
Utils_extract_dob_text(ocr) ==
    IF ~ocr.ok THEN None
    ELSE LET text == Join(ocr.frags)
             k == FirstMatching(UtilsPatterns, text)
         IN  IF k = 0 THEN None
             ELSE Some(Whole(text, Search(UtilsPatterns[k], text)))

\* ocr_api.py: match.group(1) if match.lastindex else match.group(0).
OcrApi_extract_dob_text(ocr) ==
    IF ~ocr.ok THEN None
    ELSE LET text == Join(ocr.frags)
             k == FirstMatching(OcrApiPatterns, text)
             m == Search(OcrApiPatterns[k], text)
         IN  IF k = 0 THEN None
             ELSE IF m.gs # 0 THEN Some(Group1(text, m)) ELSE Some(Whole(text, m))

\* app.py: match.group(1) if match.groups() else match.group(0), then the
\* 4-digit-year fallback. The recognized fragments are given: an exception of
\* the reader is not caught here and ends the caller.
App_extract_dob_text(frags) ==
    LET text == Join(frags)
        k == FirstMatching(AppPatterns, text)
        m == Search(AppPatterns[k], text)
        year_match == Search("year", text)
    IN  IF k # 0
        THEN (IF m.gs # 0 THEN Some(Group1(text, m)) ELSE Some(Whole(text, m)))
        ELSE IF year_match.s # 0 THEN Some(Whole(text, year_match))
        ELSE None

\* ------------------------------------------------------------ datetime.strptime
MonthFull == << <<"j","a","n","u","a","r","y">>, <<"f","e","b","r","u","a","r","y">>,
                <<"m","a","r","c","h">>, <<"a","p","r","i","l">>, <<"m","a","y">>,
                <<"j","u","n","e">>, <<"j","u","l","y">>, <<"a","u","g","u","s","t">>,
                <<"s","e","p","t","e","m","b","e","r">>, <<"o","c","t","o","b","e","r">>,
                <<"n","o","v","e","m","b","e","r">>, <<"d","e","c","e","m","b","e","r">> >>

IsLeap(y) == (y % 4 = 0 /\ y % 100 # 0) \/ y % 400 = 0
DaysInMonth(y, m) == IF m = 2 THEN (IF IsLeap(y) THEN 29 ELSE 28)
                     ELSE IF m \in {4, 6, 9, 11} THEN 30 ELSE 31
\* What the datetime constructor accepts.
ValidDate(y, m, d) == /\ y >= 1 /\ y <= 9999
                      /\ m >= 1 /\ m <= 12
                      /\ d >= 1 /\ d <= DaysInMonth(y, m)

StrpFail == [ok |-> FALSE, e |-> 0, year |-> 1900, month |-> 1, day |-> 1]
StrpStart == [ok |-> TRUE, e |-> 0, year |-> 1900, month |-> 1, day |-> 1]

\* %d: 3[0-1]|[1-2]\d|0[1-9]|[1-9]| [1-9]
DayTwoAt(s, i) == \/ Ch(s, i) = "3" /\ Ch(s, i + 1) \in {"0", "1"}
                  \/ Ch(s, i) \in {"1", "2"} /\ IsDigit(Ch(s, i + 1))
                  \/ Ch(s, i) = "0" /\ Ch(s, i + 1) \in Digits \ {"0"}
\* %m: 1[0-2]|0[1-9]|[1-9]
MonthTwoAt(s, i) == \/ Ch(s, i) = "1" /\ Ch(s, i + 1) \in {"0", "1", "2"}
                    \/ Ch(s, i) = "0" /\ Ch(s, i + 1) \in Digits \ {"0"}
OneNonZeroAt(s, i) == Ch(s, i) \in Digits \ {"0"}

\* The format's regular expression matched at i (re.match, IGNORECASE): the
\* alternatives of a directive are tried in their order, backtracking into the
\* next one when the rest of the format does not match. A space of the format
\* is \s+, followed in every format here by a directive that cannot start with
\* a space, so its longest run is the only candidate.
RECURSIVE StrpMatch(_, _, _, _)
StrpMatch(s, i, fmt, acc) ==
    IF fmt = <<>> THEN [acc EXCEPT !.e = i]
    ELSE
    LET f == Head(fmt)
        rest == Tail(fmt)
        two(field) == StrpMatch(s, i + 2, rest,
                        [acc EXCEPT ![field] = NumVal(SubSeq(s, i, i + 1))])
        one(field) == StrpMatch(s, i + 1, rest,
                        [acc EXCEPT ![field] = DigitVal(s[i])])
        spaced == StrpMatch(s, i + 2, rest, [acc EXCEPT !.day = DigitVal(s[i + 1])])
        names(table) == {k \in 1..12 : LitAt(s, i, table[k])}
        named(table) == LET k == SetMin(names(table))
                        IN  StrpMatch(s, i + Len(table[k]), rest,
                                      [acc EXCEPT !.month = k])
    IN  CASE f = "%d" ->
               IF DayTwoAt(s, i) /\ two("day").ok THEN two("day")
               ELSE IF OneNonZeroAt(s, i) /\ one("day").ok THEN one("day")
               ELSE IF IsSpace(Ch(s, i)) /\ OneNonZeroAt(s, i + 1) THEN spaced
               ELSE StrpFail
          [] f = "%m" ->
               IF MonthTwoAt(s, i) /\ two("month").ok THEN two("month")
               ELSE IF OneNonZeroAt(s, i) THEN one("month")
               ELSE StrpFail
          [] f = "%Y" ->
               IF DigitsAt(s, i, 4)
               THEN StrpMatch(s, i + 4, rest,
                              [acc EXCEPT !.year = NumVal(SubSeq(s, i, i + 3))])
               ELSE StrpFail
          [] f = "%b" -> IF names(MonthAbbr) # {} THEN named(MonthAbbr) ELSE StrpFail
          [] f = "%B" -> IF names(MonthFull) # {} THEN named(MonthFull) ELSE StrpFail
          [] f = " " ->
               IF IsSpace(Ch(s, i)) THEN StrpMatch(s, RunEnd(s, i, {" "}), rest, acc)
               ELSE StrpFail
          [] OTHER -> IF Ch(s, i) = f THEN StrpMatch(s, i + 1, rest, acc) ELSE StrpFail

\* datetime.strptime(s, fmt): ok = FALSE is ValueError (no match, unconverted
\* data remains, or a date the calendar does not have).
Strptime(s, fmt) ==
    LET r == StrpMatch(s, 1, fmt, StrpStart)
    IN  IF r.ok /\ r.e = Len(s) + 1 /\ ValidDate(r.year, r.month, r.day)
        THEN r ELSE StrpFail

AppFormats == << <<"%d", "/", "%m", "/", "%Y">>, <<"%d", "-", "%m", "-", "%Y">>,
                 <<"%d", ".", "%m", ".", "%Y">>, <<"%d", " ", "%B", " ", "%Y">>,
                 <<"%d", " ", "%b", " ", "%Y">>, <<"%d", " ", "%m", " ", "%Y">> >>

UtilsFormats == << <<"%d", "/", "%m", "/", "%Y">>, <<"%d", "-", "%m", "-", "%Y">>,
                   <<"%Y", "-", "%m", "-", "%d">>, <<"%d", " ", "%b", " ", "%Y">>,
                   <<"%d", " ", "%B", " ", "%Y">>, <<"%Y", "/", "%m", "/", "%d">> >>

\* The first format of the list that parses s, 0 when none does.
FirstFormat(formats, s) ==
    LET S == {k \in 1..Len(formats) : Strptime(s, formats[k]).ok}
    IN  IF S = {} THEN 0 ELSE SetMin(S)

\* ------------------------------------------------------------ parse_age_from_dob
\* Mutant: the tuples compared with <=, so the birthday itself still counts as ahead.
BirthdayAhead_OrToday(today, dob) ==
    \/ today.month < dob.month
    \/ today.month = dob.month /\ today.day <= dob.day

\* (today.month, today.day) < (dob.month, dob.day)
BirthdayAhead(today, dob) ==
    \/ today.month < dob.month
    \/ today.month = dob.month /\ today.day < dob.day

AgeOn(today, dob) ==
    today.year - dob.year - (IF BirthdayAhead(today, dob) THEN 1 ELSE 0)

\* str.isdigit() of a non-empty string of the modelled characters.
IsDigitStr(s) == s # <<>> /\ \A k \in 1..Len(s) : IsDigit(s[k])

\* ''.join(filter(str.isdigit, s))
DigitsOf(s) == SelectSeq(s, IsDigit)

\* A call's outcome: the value returned, or the exception that left the call.
Returned(v) == [ret |-> v, exc |-> "none"]
Raised(e) == [ret |-> None, exc |-> e]

\* app.py
App_parse_age_from_dob(dob_text, today) ==
    IF dob_text = None \/ dob_text = Some(<<>>) THEN Returned(None)
    ELSE
    LET s == Val(dob_text)
        k == FirstFormat(AppFormats, Strip(s))
    IN  IF IsDigitStr(s) /\ Len(s) = 4 THEN Returned(Some(today.year - NumVal(s)))
        ELSE IF k # 0 THEN Returned(Some(AgeOn(today, Strptime(Strip(s), AppFormats[k]))))
        ELSE Returned(None)

\* Mutant: len(digits) >= 4, the first four digits taken as the year.
Utils_parse_age_from_dob_FirstFour(dob_text, today) ==
    IF dob_text = None THEN Raised("TypeError")
    ELSE
    LET s == Val(dob_text)
        k == FirstFormat(UtilsFormats, Strip(s))
        digits == DigitsOf(s)
        dob == Strptime(SubSeq(digits, 1, 4), <<"%Y">>)
    IN  IF k # 0 THEN Returned(Some(AgeOn(today, Strptime(Strip(s), UtilsFormats[k]))))
        ELSE IF Len(digits) >= 4 /\ dob.ok THEN Returned(Some(today.year - dob.year))
        ELSE Returned(None)

\* face_match_utils.py: with None, dob_text.strip() raises inside the try of
\* every format (swallowed), then filter(str.isdigit, None) raises TypeError
\* outside any try.
Utils_parse_age_from_dob(dob_text, today) ==
    IF dob_text = None THEN Raised("TypeError")
    ELSE
    LET s == Val(dob_text)
        k == FirstFormat(UtilsFormats, Strip(s))
        digits == DigitsOf(s)
        dob == Strptime(digits, <<"%Y">>)
    IN  IF k # 0 THEN Returned(Some(AgeOn(today, Strptime(Strip(s), UtilsFormats[k]))))
        ELSE IF Len(digits) = 4 /\ dob.ok THEN Returned(Some(today.year - dob.year))
        ELSE Returned(None)

\* ------------------------------------------------------------ compare_faces
RECURSIVE Dot(_, _)
Dot(a, b) == IF a = <<>> THEN 0 ELSE a[1] * b[1] + Dot(Tail(a), Tail(b))

\* np.linalg.norm of a vector whose squared length is a perfect square.
Norm(a) == CHOOSE r \in 0..Dot(a, a) : r * r = Dot(a, a)

\* Mutant: only emb1 is tested, so emb1 is normalized before the absent emb2 is met.
compare_faces_Emb1Only(emb1, emb2) ==
    IF emb1 = None
    THEN [score |-> 0, norm_calls |-> 0, emb1 |-> emb1, emb2 |-> emb2]
    ELSE IF emb2 = None
    THEN [score |-> 0, norm_calls |-> 1, emb1 |-> emb1, emb2 |-> emb2]
    ELSE [score |-> (1000 * Dot(Val(emb1), Val(emb2)))
                        \div (Norm(Val(emb1)) * Norm(Val(emb2))),
          norm_calls |-> 2, emb1 |-> emb1, emb2 |-> emb2]

\* app.py. The score is in thousandths; norm_calls counts the calls of
\* np.linalg.norm; emb1 and emb2 are the caller's arrays when the call returns
\* (the divisions build new arrays and rebind the local names).
compare_faces(emb1, emb2) ==
    IF emb1 = None \/ emb2 = None
    THEN [score |-> 0, norm_calls |-> 0, emb1 |-> emb1, emb2 |-> emb2]
    ELSE [score |-> (1000 * Dot(Val(emb1), Val(emb2)))
                        \div (Norm(Val(emb1)) * Norm(Val(emb2))),
          norm_calls |-> 2, emb1 |-> emb1, emb2 |-> emb2]

\* face_match_utils.py: the same text.
Utils_compare_faces(emb1, emb2) ==
    IF emb1 = None \/ emb2 = None
    THEN [score |-> 0, norm_calls |-> 0, emb1 |-> emb1, emb2 |-> emb2]
    ELSE [score |-> (1000 * Dot(Val(emb1), Val(emb2)))
                        \div (Norm(Val(emb1)) * Norm(Val(emb2))),
          norm_calls |-> 2, emb1 |-> emb1, emb2 |-> emb2]

\* ------------------------------------------------------------ the verdict of app.py
\* face_match_threshold = 0.70, in thousandths.
face_match_threshold == 700
\* age >= 18
adult_age == 18

M_NoFaceOnId == "Could not detect a face on the ID document."
M_NoFaceInSelfie == "Could not detect a face in the selfie."
M_FaceMatch == "Face match successful."
M_NoFaceMatch == "Faces do not match."
V_Success == "Identity and Age Verified Successfully!"
V_Failed == "Verification Failed. Please review the results above."

\* Mutant: the score alone decides, the embeddings are not tested.
FaceMessage_ScoreOnly(emb1, emb2, score) ==
    IF score > face_match_threshold THEN M_FaceMatch
    ELSE M_NoFaceMatch

\* The face match result.
FaceMessage(emb1, emb2, score) ==
    IF emb1 = None THEN M_NoFaceOnId
    ELSE IF emb2 = None THEN M_NoFaceInSelfie
    ELSE IF score > face_match_threshold THEN M_FaceMatch
    ELSE M_NoFaceMatch

\* The age verification result.
AgeMessage(age) ==
    IF age # None /\ Val(age) >= adult_age THEN "Age verification successful (18+)."
    ELSE IF age # None THEN "Age verification failed (under 18)."
    ELSE "Could not determine age from the document."

\* Mutant: score >= face_match_threshold.
FinalVerdict_AtThreshold(score, age) ==
    IF score >= face_match_threshold /\ age # None /\ Val(age) >= adult_age
    THEN V_Success
    ELSE V_Failed

\* Mutant: the score is compared with the lower threshold 0.5.
FinalVerdict_LowerThreshold(score, age) ==
    IF score > 500 /\ age # None /\ Val(age) >= adult_age
    THEN V_Success
    ELSE V_Failed

\* The final verdict.
FinalVerdict(score, age) ==
    IF score > face_match_threshold /\ age # None /\ Val(age) >= adult_age
    THEN V_Success
    ELSE V_Failed

\* ------------------------------------------------------------ inputs
\* The most fragments the text reader returns for one image.
MaxFrags == 2

\* The sequences over S of length at most n.
RECURSIVE SeqsUpTo(_, _)
SeqsUpTo(S, n) ==
    IF n = 0 THEN {<<>>}
    ELSE LET shorter == SeqsUpTo(S, n - 1)
         IN  shorter \cup {Append(q, x) : q \in shorter, x \in S}

Date(y, m, d) == [year |-> y, month |-> m, day |-> d]
\* What datetime.today() may give.
Todays == {Date(2024, 5, 1), Date(2024, 5, 12), Date(2024, 6, 1), Date(2026, 11, 4)}

\* What the face model may give for an image with a face.
Embeddings == {<<10, 0, 0, 0>>, <<7, 1, 1, 7>>, <<6, 8, 0, 0>>, <<4, 3, 0, 0>>,
               <<0, 0, -5, 0>>}
FaceOutcomes == {None} \cup {Some(e) : e \in Embeddings}

\* Fragments the reader may recognize on a document shown to app.py.
AppFrags ==
    {<<"D", "O", "B", ":">>,
     <<"1", "2", "/", "0", "5", "/", "1", "9", "9", "8">>,
     <<"1", "2", "-", "0", "5", "-", "2", "0", "0", "6">>,
     <<"2", "0", "3", "0">>}

\* Fragments the reader may recognize, for the three extract_dob_text.
LibFrags ==
    {<<"D", "O", "B">>,
     <<"D", "O", "B", "1", "2", "/", "0", "5", "/", "1", "9", "9", "8">>,
     <<"1", "2", "/", "0", "5", "/", "1", "9", "9", "8">>,
     <<"1", "2", "-", "0", "5", "-", "2", "0", "1", "0">>,
     <<"1", "9", "9", "8", "-", "0", "5", "-", "1", "2">>,
     <<"1", "2", "/", "0", "5", "/", "9", "8">>,
     <<"1", "2", " ", "M", "a", "y", " ", "1", "9", "9", "8">>,
     <<"2", " ", "J", "u", "n", "e", " ", "2", "0", "3", "0">>,
     <<"1", "9", "9", "8">>,
     <<"2", "0", "3", "0">>,
     <<"D", "a", "t", "e", " ", "o", "f", " ", "B", "i", "r", "t", "h", ":">>,
     <<"DEV_JA", "DEV_NA", "DEV_VIRAMA", "DEV_MA", " ", "DEV_TA", "DEV_I", "DEV_THA", "DEV_I", ":">>,
     <<"x">>}

\* Strings handed to parse_age_from_dob.
DobStrings ==
    {<<>>,
     <<"1", "2", "/", "0", "5", "/", "1", "9", "9", "8">>,
     <<"1", "2", "-", "0", "5", "-", "1", "9", "9", "8">>,
     <<"1", "2", ".", "0", "5", ".", "1", "9", "9", "8">>,
     <<"1", "2", " ", "M", "a", "y", " ", "1", "9", "9", "8">>,
     <<"1", "2", " ", "j", "u", "n", "e", " ", "1", "9", "9", "8">>,
     <<"1", "2", " ", "0", "5", " ", "1", "9", "9", "8">>,
     <<"1", "9", "9", "8", "-", "0", "5", "-", "1", "2">>,
     <<"1", "9", "9", "8", "/", "0", "5", "/", "1", "2">>,
     <<"1", "9", "9", "8">>,
     <<" ", "1", "9", "9", "8", " ">>,
     <<"1", "2", "/", "3", "4">>,
     <<"x", "1", "9", "9", "8">>,
     <<"0", "0", "0", "0">>,
     <<"3", "1", "/", "0", "2", "/", "1", "9", "9", "8">>,
     <<"2", "9", "/", "0", "2", "/", "2", "0", "0", "0">>,
     <<"1", "/", "5", "/", "1", "9", "9", "8">>,
     <<"1", "2", "/", "0", "5", "/", "9", "8">>,
     <<"D", "O", "B", "1", "2", "/", "0", "5", "/", "1", "9", "9", "8">>,
     <<"2", "0", "3", "0">>,
     <<"1", "2", "/", "0", "5", "/", "2", "0", "3", "0">>,
     <<"n", "o", "t", " ", "a", " ", "d", "a", "t", "e">>,
     <<"0", "1", "/", "0", "5", "/", "2", "0", "2", "4">>,
     <<"1", "2", "-", "0", "5", "-", "2", "0", "0", "6">>,
     <<" ", "1", "2", "/", "0", "5", "/", "1", "9", "9", "8", " ">>,
     <<"1", "9", "9", "8", "-", "0", "5", "-", "3", "5">>}

DobInputs == {None} \cup {Some(x) : x \in DobStrings}

OcrOutcomes(frags) == {OcrRaises} \cup {OcrOk(q) : q \in SeqsUpTo(frags, MaxFrags)}

\* ------------------------------------------------------------ state
VARIABLES
    \* app.py, one browser session: the two widgets, the position of the
    \* "Verify Identity" handler, its locals and what the page shows
    aadhar_file, selfie_file, pc, aadhar_img, emb1, emb2, score, results,
    dob_text, today, age, shown,
    \* ocr_api.py, one POST /ocr: the request, the handler's position, the
    \* reader's outcome, the responses sent for the request
    request, o_pc, o_ocr, responses,
    \* face_match_utils.py and the functions of the other files called as a
    \* library: the last call, its arguments and what each variant gave
    call

app_vars == <<aadhar_file, selfie_file, pc, aadhar_img, emb1, emb2, score, results,
              dob_text, today, age, shown>>
ocr_vars == <<request, o_pc, o_ocr, responses>>
vars == <<app_vars, ocr_vars, call>>

NothingShown == [warning |-> FALSE, pdf_error |-> FALSE, face |-> "", age |-> "",
                 verdict |-> ""]

\* The handler's locals and the page at the start of a script run.
FreshRun ==
    /\ aadhar_img' = None
    /\ emb1' = None
    /\ emb2' = None
    /\ score' = 0
    /\ results' = <<>>
    /\ dob_text' = None
    /\ today' = None
    /\ age' = None

Init ==
    /\ aadhar_file = "none"
    /\ selfie_file = "none"
    /\ pc = "idle"
    /\ aadhar_img = None
    /\ emb1 = None
    /\ emb2 = None
    /\ score = 0
    /\ results = <<>>
    /\ dob_text = None
    /\ today = None
    /\ age = None
    /\ shown = NothingShown
    /\ request = "none"
    /\ o_pc = "idle"
    /\ o_ocr = OcrOk(<<>>)
    /\ responses = <<>>
    /\ call = [fn |-> "none"]

\* ------------------------------------------------------------ app.py: the session
\* The script is at rest: nothing runs until the next interaction.
AtRest == pc \in {"idle", "done", "crashed"}

\* st.file_uploader: a file is chosen or removed; the script reruns with the
\* button not pressed, so the page shows no result.
\*   image: a readable image; bad_image: a file Image.open cannot read;
\*   pdf: a PDF with a page; bad_pdf: a PDF fitz cannot open or with no page.
UploadId ==
    /\ AtRest
    /\ \E f \in {"none", "image", "bad_image", "pdf", "bad_pdf"} :
         /\ f # aadhar_file
         /\ aadhar_file' = f
    /\ pc' = "idle"
    /\ shown' = NothingShown
    /\ FreshRun
    /\ UNCHANGED <<selfie_file, ocr_vars, call>>

\* st.camera_input: a selfie is taken or cleared; the script reruns.
CaptureSelfie ==
    /\ AtRest
    /\ selfie_file' = (IF selfie_file = "none" THEN "image" ELSE "none")
    /\ pc' = "idle"
    /\ shown' = NothingShown
    /\ FreshRun
    /\ UNCHANGED <<aadhar_file, ocr_vars, call>>

\* The button is pressed: the script reruns and the handler starts. A missing
\* file gives the warning; otherwise the images are opened.
ClickVerify ==
    /\ AtRest
    /\ emb1' = None
    /\ emb2' = None
    /\ score' = 0
    /\ results' = <<>>
    /\ dob_text' = None
    /\ today' = None
    /\ age' = None
    /\ IF aadhar_file = "none" \/ selfie_file = "none"
       THEN /\ shown' = [NothingShown EXCEPT !.warning = TRUE]
            /\ aadhar_img' = None
            /\ pc' = "done"
       ELSE IF aadhar_file = "bad_image"
       THEN \* Image.open raises: nothing catches it
            /\ shown' = NothingShown
            /\ aadhar_img' = None
            /\ pc' = "crashed"
       ELSE IF aadhar_file = "bad_pdf"
       THEN \* extract_image_from_pdf returns None
            /\ shown' = [NothingShown EXCEPT !.pdf_error = TRUE]
            /\ aadhar_img' = None
            /\ pc' = "done"
       ELSE /\ shown' = NothingShown
            /\ aadhar_img' = Some("RGB")
            /\ pc' = "analysis"
    /\ UNCHANGED <<aadhar_file, selfie_file, ocr_vars, call>>

\* emb1, emb2 = extract_face_embedding(...); score = compare_faces(emb1, emb2)
Analyze ==
    /\ pc = "analysis"
    /\ \E e1 \in FaceOutcomes, e2 \in FaceOutcomes :
         /\ emb1' = e1
         /\ emb2' = e2
         /\ score' = compare_faces(e1, e2).score
    /\ pc' = "ocr"
    /\ UNCHANGED <<aadhar_file, selfie_file, aadhar_img, results, dob_text, today,
                   age, shown, ocr_vars, call>>

\* The face model raises: extract_face_embedding of app.py catches nothing.
FaceModelRaises ==
    /\ pc = "analysis"
    /\ pc' = "crashed"
    /\ UNCHANGED <<aadhar_file, selfie_file, aadhar_img, emb1, emb2, score, results,
                   dob_text, today, age, shown, ocr_vars, call>>

\* dob_text = extract_dob_text(aadhar_img); age = parse_age_from_dob(dob_text).
\* The clock is read only when a birth year or a date was parsed.
ReadDob ==
    /\ pc = "ocr"
    /\ \E frags \in SeqsUpTo(AppFrags, MaxFrags) :
         \E d \in {App_extract_dob_text(frags)}, t \in Todays :
            \E a \in {App_parse_age_from_dob(d, t).ret} :
                /\ results' = frags
                /\ dob_text' = d
                /\ age' = a
                /\ today' = (IF a = None THEN None ELSE Some(t))
    /\ pc' = "display"
    /\ UNCHANGED <<aadhar_file, selfie_file, aadhar_img, emb1, emb2, score, shown,
                   ocr_vars, call>>

\* reader.readtext raises: extract_dob_text of app.py catches nothing.
ReaderRaises ==
    /\ pc = "ocr"
    /\ pc' = "crashed"
    /\ UNCHANGED <<aadhar_file, selfie_file, aadhar_img, emb1, emb2, score, results,
                   dob_text, today, age, shown, ocr_vars, call>>

\* The results and the final verdict are written to the page.
Display ==
    /\ pc = "display"
    /\ shown' = [shown EXCEPT !.face = FaceMessage(emb1, emb2, score),
                              !.age = AgeMessage(age),
                              !.verdict = FinalVerdict(score, age)]
    /\ pc' = "done"
    /\ UNCHANGED <<aadhar_file, selfie_file, aadhar_img, emb1, emb2, score, results,
                   dob_text, today, age, ocr_vars, call>>

Next ==
    \/ UploadId
    \/ CaptureSelfie
    \/ ClickVerify
    \/ Analyze
    \/ FaceModelRaises
    \/ ReadDob
    \/ ReaderRaises
    \/ Display

Spec == Init /\ [][Next]_vars

\* ------------------------------------------------------------ ocr_api.py: POST /ocr
Respond(status, body) == responses' = Append(responses, [status |-> status, body |-> body])

\* A POST arrives: with no 'image' field, with a file that is no image, or
\* with an image.
Post ==
    /\ o_pc = "idle"
    /\ \E r \in {"no_image_field", "undecodable", "image"} : request' = r
    /\ o_pc' = "check"
    /\ o_ocr' = OcrOk(<<>>)
    /\ responses' = <<>>
    /\ UNCHANGED <<app_vars, call>>

\* if "image" not in request.files: return 400
CheckField ==
    /\ o_pc = "check"
    /\ IF request = "no_image_field"
       THEN Respond(400, [error |-> "No image uploaded"]) /\ o_pc' = "idle"
       ELSE UNCHANGED responses /\ o_pc' = "open"
    /\ UNCHANGED <<request, o_ocr, app_vars, call>>

\* Mutant: Image.open outside the try, so its exception leaves the handler
\* and the server answers 500.
OpenImage_Uncaught ==
    /\ o_pc = "open"
    /\ IF request = "undecodable"
       THEN Respond(500, [error |-> "Internal Server Error"]) /\ o_pc' = "idle"
       ELSE UNCHANGED responses /\ o_pc' = "extract"
    /\ UNCHANGED <<request, o_ocr, app_vars, call>>

\* Image.open(file.stream).convert("RGB"), any exception: return 400
OpenImage ==
    /\ o_pc = "open"
    /\ IF request = "undecodable"
       THEN Respond(400, [error |-> "Invalid image format"]) /\ o_pc' = "idle"
       ELSE UNCHANGED responses /\ o_pc' = "extract"
    /\ UNCHANGED <<request, o_ocr, app_vars, call>>

\* dob_text = extract_dob_text(image); return jsonify({"dob_text": dob_text})
ExtractAndReply ==
    /\ o_pc = "extract"
    /\ \E o \in OcrOutcomes(LibFrags) :
         /\ o_ocr' = o
         /\ Respond(200, [dob_text |-> OcrApi_extract_dob_text(o)])
    /\ o_pc' = "idle"
    /\ UNCHANGED <<request, app_vars, call>>

NextOcr == Post \/ CheckField \/ OpenImage \/ ExtractAndReply

SpecOcr == Init /\ [][NextOcr]_vars

\* ------------------------------------------------------------ the functions, called directly
\* The functions keep no state: call holds one call, from its arguments to the
\* caller dropping the result.
\* extract_dob_text of the three files on one outcome of the reader. app.py
\* catches nothing, so the reader's exception leaves its extract_dob_text.
CallExtract ==
    /\ call.fn = "none"
    /\ \E o \in OcrOutcomes(LibFrags) :
         call' = [fn |-> "extract_dob_text", ocr |-> o,
                  utils |-> Returned(Utils_extract_dob_text(o)),
                  ocr_api |-> Returned(OcrApi_extract_dob_text(o)),
                  app |-> IF o.ok THEN Returned(App_extract_dob_text(o.frags))
                          ELSE Raised("Exception")]
    /\ UNCHANGED <<app_vars, ocr_vars>>

\* parse_age_from_dob of app.py and face_match_utils.py on one argument, on
\* one day.
CallParseAge ==
    /\ call.fn = "none"
    /\ \E d \in DobInputs, t \in Todays :
         call' = [fn |-> "parse_age_from_dob", dob_text |-> d, today |-> t,
                  app |-> App_parse_age_from_dob(d, t),
                  utils |-> Utils_parse_age_from_dob(d, t)]
    /\ UNCHANGED <<app_vars, ocr_vars>>

\* compare_faces of app.py and face_match_utils.py on one pair.
CallCompare ==
    /\ call.fn = "none"
    /\ \E e1 \in FaceOutcomes, e2 \in FaceOutcomes :
         call' = [fn |-> "compare_faces", emb1 |-> e1, emb2 |-> e2,
                  app |-> compare_faces(e1, e2),
                  utils |-> Utils_compare_faces(e1, e2)]
    /\ UNCHANGED <<app_vars, ocr_vars>>

\* The caller is done with the result.
Return ==
    /\ call.fn # "none"
    /\ call' = [fn |-> "none"]
    /\ UNCHANGED <<app_vars, ocr_vars>>

NextLib == CallExtract \/ CallParseAge \/ CallCompare \/ Return

SpecLib == Init /\ [][NextLib]_vars

\* ------------------------------------------------------------ claims
Shown == shown.verdict # ""
Adult(a) == a # None /\ Val(a) >= 18

\* C1: whenever the final verdict is on the page, it is the full success
\* exactly when score > 0.70 and the age is known and at least 18.
C1_SuccessIff ==
    Shown => (shown.verdict = V_Success <=> (score > 700 /\ Adult(age)))

\* An adult whose score is exactly the threshold is refused.
C1_Witness ==
    /\ Shown
    /\ score = 700
    /\ Adult(age)
    /\ shown.verdict = V_Failed

\* C2 as claimed: a score in (0.5, 0.70] gives, for any age, a verdict that is
\* neither the success nor the verification-failed verdict.
C2_LowConfidenceVerdict ==
    (Shown /\ score > 500 /\ score <= 700) => shown.verdict \notin {V_Success, V_Failed}

\* C2 as amended: the verdict of app.py has two outcomes, and every score not
\* above 0.70, in (0.5, 0.70] as at or below 0.5, gives verification failed for
\* any age.
C2_TwoWayVerdict ==
    Shown => /\ shown.verdict \in {V_Success, V_Failed}
             /\ score <= 700 => shown.verdict = V_Failed

\* An adult with a score in (0.5, 0.70) gets the verification-failed verdict.
C2_Witness ==
    /\ Shown
    /\ score > 500
    /\ score < 700
    /\ Adult(age)
    /\ shown.verdict = V_Failed

\* C6: the age the pipeline of app.py gives is none or a non-negative integer.
C6_AgeNonNegative ==
    age # None => Val(age) >= 0

\* C10: the success verdict needs both files, a document image and both
\* embeddings; with an embedding absent the verdict is verification failed and
\* the face message is one of the two could-not-detect errors.
C10_SuccessNeedsBothFaces ==
    /\ shown.verdict = V_Success =>
          /\ aadhar_file # "none"
          /\ selfie_file # "none"
          /\ aadhar_img # None
          /\ emb1 # None
          /\ emb2 # None
    /\ (Shown /\ (emb1 = None \/ emb2 = None)) =>
          /\ shown.verdict = V_Failed
          /\ shown.face \in {M_NoFaceOnId, M_NoFaceInSelfie}

\* No face in the selfie, an adult's document: verification failed.
C10_Witness ==
    /\ Shown
    /\ emb1 # None
    /\ emb2 = None
    /\ Adult(age)
    /\ shown.verdict = V_Failed
    /\ shown.face = M_NoFaceInSelfie

\* C8: a POST /ocr that has been handled was answered exactly once: 400 for
\* a missing field or an undecodable image, otherwise 200 with a body of the
\* one key dob_text, none or a string, and none when the reader failed. No
\* request is ever answered twice.
C8_OneResponse ==
    /\ Len(responses) <= 1
    /\ (o_pc = "idle" /\ request # "none") =>
          /\ Len(responses) = 1
          /\ request \in {"no_image_field", "undecodable"} =>
                responses[1].status = 400
          /\ request = "image" =>
                /\ responses[1].status = 200
                /\ DOMAIN responses[1].body = {"dob_text"}
                /\ Cardinality(responses[1].body.dob_text) <= 1
                /\ \A d \in responses[1].body.dob_text : d \in Seq(STRING)
                /\ ~o_ocr.ok => responses[1].body.dob_text = None

\* The reader failed on a decodable image: 200 with dob_text none.
C8_Witness ==
    /\ o_pc = "idle"
    /\ request = "image"
    /\ ~o_ocr.ok
    /\ Len(responses) = 1
    /\ responses[1].status = 200
    /\ responses[1].body.dob_text = None

IsCompare == call.fn = "compare_faces"
IsParse == call.fn = "parse_age_from_dob"
IsExtract == call.fn = "extract_dob_text"

\* C9: with an embedding absent, compare_faces of either file returns 0.0,
\* has called no norm, and leaves both arguments as they were.
C9_AbsentGivesZero ==
    (IsCompare /\ (call.emb1 = None \/ call.emb2 = None)) =>
        \A r \in {call.app, call.utils} :
            /\ r.score = 0
            /\ r.norm_calls = 0
            /\ r.emb1 = call.emb1
            /\ r.emb2 = call.emb2

\* A face on the document, none in the selfie.
C9_Witness ==
    /\ IsCompare
    /\ call.emb1 # None
    /\ call.emb2 = None
    /\ call.app.score = 0
    /\ call.utils.score = 0

\* C3: parse_age_from_dob of either file, given None, returns None and raises
\* nothing.
C3_NoneGivesNone ==
    (IsParse /\ call.dob_text = None) =>
        /\ call.app = Returned(None)
        /\ call.utils = Returned(None)

Bare4(s) == Len(s) = 4 /\ \A k \in 1..4 : s[k] \in Digits
Unparsed(formats, s) == \A k \in 1..Len(formats) : ~Strptime(Strip(s), formats[k]).ok

\* C4 as claimed: a string that is not four bare digits and that no format of
\* the file parses gives None, with no exception, in either file.
C4_UnparsedGivesNone ==
    (IsParse /\ call.dob_text # None /\ ~Bare4(Val(call.dob_text))) =>
        /\ Unparsed(AppFormats, Val(call.dob_text)) => call.app = Returned(None)
        /\ Unparsed(UtilsFormats, Val(call.dob_text)) => call.utils = Returned(None)

\* C4 as amended: app.py gives None for such a string; face_match_utils.py
\* gives None for a string no format parses unless the digits of the string,
\* every other character dropped, are exactly four and a year from 0001 on,
\* and then gives the current year minus that year. Neither raises.
C4_UnparsedGivesNoneOrYear ==
    (IsParse /\ call.dob_text # None) =>
        LET s == Val(call.dob_text)
            digits == SelectSeq(s, LAMBDA c : c \in Digits)
        IN  /\ (~Bare4(s) /\ Unparsed(AppFormats, s)) => call.app = Returned(None)
            /\ Unparsed(UtilsFormats, s) =>
                  call.utils = (IF Len(digits) = 4 /\ NumVal(digits) >= 1
                                THEN Returned(Some(call.today.year - NumVal(digits)))
                                ELSE Returned(None))

\* Four digits behind a letter: None in app.py, an age in face_match_utils.py.
C4_Witness ==
    /\ IsParse
    /\ call.dob_text # None
    /\ ~Bare4(Val(call.dob_text))
    /\ Unparsed(AppFormats, Val(call.dob_text))
    /\ Unparsed(UtilsFormats, Val(call.dob_text))
    /\ call.app = Returned(None)
    /\ call.utils.ret # None

\* What the claim says extract_dob_text returns for a text: the group of the
\* first pattern of the list that matches when the pattern has one, else its
\* whole match.
GroupOrWhole(patterns, text) ==
    LET k == FirstMatching(patterns, text)
        m == Search(patterns[k], text)
    IN  IF m.gs # 0 THEN Group1(text, m) ELSE Whole(text, m)

\* C5: in each of the three files, when a pattern of the list matches the
\* text, extract_dob_text returns the captured group of the first matching
\* pattern if it has a group, and its whole match if it has none.
C5_GroupReturned ==
    (IsExtract /\ call.ocr.ok) =>
        LET text == Join(call.ocr.frags)
        IN  /\ FirstMatching(UtilsPatterns, text) # 0 =>
                  call.utils = Returned(Some(GroupOrWhole(UtilsPatterns, text)))
            /\ FirstMatching(OcrApiPatterns, text) # 0 =>
                  call.ocr_api = Returned(Some(GroupOrWhole(OcrApiPatterns, text)))
            /\ FirstMatching(AppPatterns, text) # 0 =>
                  call.app = Returned(Some(GroupOrWhole(AppPatterns, text)))

\* C7: an argument parsed by a full day/month/year format gives
\* today.year - dob.year, less one exactly when today's (month, day) is
\* before the birthday's, in both files.
ExpectedAge(t, dob) ==
    t.year - dob.year
      - (IF t.month < dob.month \/ (t.month = dob.month /\ t.day < dob.day) THEN 1 ELSE 0)

C7_AgeFormula ==
    (IsParse /\ call.dob_text # None) =>
        LET s == Strip(Val(call.dob_text))
            ka == FirstFormat(AppFormats, s)
            ku == FirstFormat(UtilsFormats, s)
        IN  /\ ka # 0 =>
                  call.app = Returned(Some(ExpectedAge(call.today, Strptime(s, AppFormats[ka]))))
            /\ ku # 0 =>
                  call.utils = Returned(Some(ExpectedAge(call.today, Strptime(s, UtilsFormats[ku]))))

\* 12/05/1998 read on 2024-05-01, before the birthday: 25 in both files.
C7_Witness ==
    /\ IsParse
    /\ call.dob_text = Some(<<"1", "2", "/", "0", "5", "/", "1", "9", "9", "8">>)
    /\ call.today = Date(2024, 5, 1)
    /\ call.app = Returned(Some(25))
    /\ call.utils = Returned(Some(25))

====
